---- MODULE Spec2Model ----
(***************************************************************************)
(* Model of the bhavcopy download pipelines of src/pipeline/runner_bse.py  *)
(* (exchange A, "BSE") and src/pipeline/runner_nse.py (exchange B, "NSE"). *)
(*                                                                         *)
(* Text (file names, date strings) is a sequence of one-character strings, *)
(* so that strftime / strptime / upper / with_suffix are modelled by what  *)
(* they do to the characters.  File contents are sequences of chunks.      *)
(* The output directory is a function from file-name keys to contents.     *)
(***************************************************************************)
EXTENDS Integers, Sequences, FiniteSets, TLC

VARIABLES
    exchange,          \* "BSE" | "NSE": which runner module is executing
    caseSensitive,     \* does the file system distinguish letter case
    start,             \* download_bhavcopy_range: start (datetime)
    end,               \* download_bhavcopy_range: end (datetime)
    current,           \* download_bhavcopy_range: current (datetime)
    downloaded_files,  \* download_bhavcopy_range: downloaded_files (list of paths)
    fs,                \* the output directory: file-name key -> contents
    cookieFile,        \* contents of <cookies_dir>/nse_cookies.pkl, or Absent
    pc,                \* "loop" | "returned" | "raised" (driver) or "calls" (function specs)
    calls,             \* the per-date pipeline's invocations, in order: date, outcome
    last,              \* record describing the most recent step
    bootstraps,        \* number of get_or_set_cookies calls that bootstrapped and returned
    faults             \* number of environment faults injected so far

vars == << exchange, caseSensitive, start, end, current, downloaded_files, fs,
           cookieFile, pc, calls, last, bootstraps, faults >>

----------------------------------------------------------------------------
(* Bounds of the model *)

\* the range starts 1..(1 + StartSpread) days after a base date
StartSpread == 1
\* the range holds 0..MaxDays days (0: start is later than end)
MaxDays == 7
\* at most this many environment faults are injected in one batch
MaxFaults == 1
\* at most this many calls in the specifications of a single function
MaxCalls == 2

----------------------------------------------------------------------------
(* Text *)

LowerLetters == <<"a","b","c","d","e","f","g","h","i","j","k","l","m","n","o","p","q","r","s","t","u","v","w","x","y","z">>
UpperLetters == <<"A","B","C","D","E","F","G","H","I","J","K","L","M","N","O","P","Q","R","S","T","U","V","W","X","Y","Z">>
Digits == <<"0","1","2","3","4","5","6","7","8","9">>

\* str.upper() on the letters: a table from each lower-case letter to its capital
UpperTable == [c \in {LowerLetters[i] : i \in 1..26} |->
                  UpperLetters[CHOOSE i \in 1..26 : LowerLetters[i] = c]]

\* str.upper() on one character
UpperChar(c) == IF c \in DOMAIN UpperTable THEN UpperTable[c] ELSE c

\* str.upper()
Upper(s) == [i \in 1..Len(s) |-> UpperChar(s[i])]

DigitTable == [c \in {Digits[i] : i \in 1..10} |-> (CHOOSE i \in 1..10 : Digits[i] = c) - 1]
IsDigit(c) == c \in DOMAIN DigitTable
DigitVal(c) == DigitTable[c]

\* zero-padded decimal, two and four characters (%d, %m and %Y of strftime)
DigitChar(k) == Digits[(k % 10) + 1]
Fmt2(n) == << DigitChar(n \div 10), DigitChar(n) >>
Fmt4(n) == << DigitChar(n \div 1000), DigitChar(n \div 100), DigitChar(n \div 10), DigitChar(n) >>

\* %b of strftime: the abbreviated month name
MonthAbbr == << <<"J","a","n">>, <<"F","e","b">>, <<"M","a","r">>, <<"A","p","r">>,
                <<"M","a","y">>, <<"J","u","n">>, <<"J","u","l">>, <<"A","u","g">>,
                <<"S","e","p">>, <<"O","c","t">>, <<"N","o","v">>, <<"D","e","c">> >>

----------------------------------------------------------------------------
(* datetime *)

IsLeap(y) == y % 4 = 0 /\ (y % 100 # 0 \/ y % 400 = 0)

DaysInMonth(y, m) ==
    IF m = 2 THEN (IF IsLeap(y) THEN 29 ELSE 28)
    ELSE IF m \in {4, 6, 9, 11} THEN 30 ELSE 31

RECURSIVE DaysBeforeMonth(_, _)
DaysBeforeMonth(y, m) ==
    IF m = 1 THEN 0 ELSE DaysBeforeMonth(y, m - 1) + DaysInMonth(y, m - 1)

\* datetime.toordinal(): 1 for 0001-01-01
ToOrdinal(dt) ==
    LET y1 == dt.year - 1
    IN  y1 * 365 + (y1 \div 4) - (y1 \div 100) + (y1 \div 400)
        + DaysBeforeMonth(dt.year, dt.month) + dt.day

\* a weekday() that counts from Sunday (0 is Sunday, 6 is Saturday)
Weekday_FromSunday(dt) == ToOrdinal(dt) % 7

\* datetime.weekday(): 0 is Monday, 6 is Sunday
Weekday(dt) == (ToOrdinal(dt) + 6) % 7

\* the largest year a datetime can hold (datetime.MAXYEAR)
MAXYEAR == 9999

DateMax == [year |-> MAXYEAR, month |-> 12, day |-> 31]

\* does dt + timedelta(days=1) raise OverflowError (date value out of range)
AddDayOverflows(dt) == dt = DateMax

\* dt + timedelta(days=1), for a dt where it does not overflow
PlusOneDay(dt) ==
    IF dt.day < DaysInMonth(dt.year, dt.month)
    THEN [dt EXCEPT !.day = dt.day + 1]
    ELSE IF dt.month < 12
    THEN [dt EXCEPT !.month = dt.month + 1, !.day = 1]
    ELSE [year |-> dt.year + 1, month |-> 1, day |-> 1]

\* current <= end
DateLE(a, b) == ToOrdinal(a) <= ToOrdinal(b)

\* strftime("%d%b%Y"), also f"{date_obj:%d%b%Y}"
StrfDBY(dt) == Fmt2(dt.day) \o MonthAbbr[dt.month] \o Fmt4(dt.year)

\* strftime("%Y%m%d"), also f"{date_obj:%Y%m%d}"
StrfYMD(dt) == Fmt4(dt.year) \o Fmt2(dt.month) \o Fmt2(dt.day)

\* what stands for "strptime raised ValueError"
ValueError == [year |-> 0, month |-> 0, day |-> 0]

\* datetime.strptime(s, "%d%b%Y") on the nine-character form DDMMMYYYY;
\* ValueError when s does not parse to a date
Strptime(s) ==
    IF Len(s) # 9 \/ \E i \in {1, 2, 6, 7, 8, 9} : ~IsDigit(s[i])
    THEN ValueError
    ELSE LET d   == DigitVal(s[1]) * 10 + DigitVal(s[2])
             mon == Upper(SubSeq(s, 3, 5))
             y   == DigitVal(s[6]) * 1000 + DigitVal(s[7]) * 100
                    + DigitVal(s[8]) * 10 + DigitVal(s[9])
         IN  IF /\ \E m \in 1..12 : Upper(MonthAbbr[m]) = mon
                /\ y >= 1
             THEN LET m == CHOOSE k \in 1..12 : Upper(MonthAbbr[k]) = mon
                  IN  IF d >= 1 /\ d <= DaysInMonth(y, m)
                      THEN [year |-> y, month |-> m, day |-> d]
                      ELSE ValueError
             ELSE ValueError

----------------------------------------------------------------------------
(* pathlib and the file system *)

\* index of the last "." of a name, 0 when there is none (str.rfind)
LastDot(n) ==
    IF \E i \in 1..Len(n) : n[i] = "."
    THEN CHOOSE i \in 1..Len(n) : n[i] = "." /\ \A j \in (i+1)..Len(n) : n[j] # "."
    ELSE 0

\* PurePath.suffix
Suffix(n) ==
    LET i == LastDot(n)
    IN  IF 1 < i /\ i < Len(n) THEN SubSeq(n, i, Len(n)) ELSE <<>>

\* a with_suffix that appends s and keeps the old suffix
WithSuffix_Append(n, s) == n \o s

\* PurePath.with_suffix(s)
WithSuffix(n, s) == SubSeq(n, 1, Len(n) - Len(Suffix(n))) \o s

CsvSuffix == <<".","c","s","v">>
CsvGzSuffix == <<".","c","s","v",".","g","z">>

\* the key under which the file system stores a name
Key(n) == IF caseSensitive THEN n ELSE Upper(n)

Exists(f, n) == Key(n) \in DOMAIN f

\* open(n, "wb") followed by writes of data: creates or truncates
WriteFile(f, n, data) ==
    [k \in DOMAIN f \cup {Key(n)} |-> IF k = Key(n) THEN data ELSE f[k]]

\* Path.unlink()
Unlink(f, n) == [k \in DOMAIN f \ {Key(n)} |-> f[k]]

\* Path.rename(target): replaces target when it exists
Rename(f, src, dst) ==
    IF Key(src) = Key(dst) THEN f
    ELSE LET g == WriteFile(f, dst, f[Key(src)])
         IN  [k \in DOMAIN g \ {Key(src)} |-> g[k]]

EmptyDir == [k \in {} |-> <<>>]

----------------------------------------------------------------------------
(* gzip *)

\* the bytes gzip.open(..., "wb") leaves after a complete copy of data
Gzip(data) == <<"GZ">> \o data \o <<"CRC">>

\* the bytes left when the copy stops before the end of data
GzipPartial(data) == <<"GZ">> \o SubSeq(data, 1, Len(data) \div 2)

IsGzip(g) == Len(g) >= 2 /\ g[1] = "GZ" /\ g[Len(g)] = "CRC"

\* gzip decompression; <<"BadGzipFile">> when g is not a complete gzip stream
Gunzip(g) == IF IsGzip(g) THEN SubSeq(g, 2, Len(g) - 1) ELSE <<"BadGzipFile">>

----------------------------------------------------------------------------
(* compress_file, the same function in both runners *)

\* what can go wrong inside compress_file once the input file is open
IoOutcomes == {"ok", "open_out_fail", "copy_fail", "unlink_fail"}

\* compress_file(input_file_path): arg.path is the path, arg.isPath tells
\* whether the caller passed a Path object (and not a str).  The result is
\* the directory afterwards, the returned value and whether an exception
\* left the function.
compress_file(f, arg, io) ==
    LET input_path == arg.path
        gz_path    == WithSuffix(input_path, CsvGzSuffix)
    IN  IF ~Exists(f, input_path)
        THEN \* open(input_path, 'rb') raises: except FileNotFoundError
             [fs |-> f, ret |-> "None", raised |-> FALSE]
        ELSE IF io = "open_out_fail"
        THEN \* gzip.open(gz_path, 'wb') raises: except Exception
             [fs |-> f, ret |-> "None", raised |-> FALSE]
        ELSE IF io = "copy_fail"
        THEN \* shutil.copyfileobj raises after gz_path was created
             [fs |-> WriteFile(f, gz_path, GzipPartial(f[Key(input_path)])),
              ret |-> "None", raised |-> FALSE]
        ELSE LET g == WriteFile(f, gz_path, Gzip(f[Key(input_path)]))
             IN  IF ~arg.isPath \/ io = "unlink_fail"
                 THEN \* input_file_path.unlink() raises (a str has no unlink)
                      [fs |-> g, ret |-> "None", raised |-> FALSE]
                 ELSE [fs |-> Unlink(g, input_path), ret |-> "True", raised |-> FALSE]

----------------------------------------------------------------------------
(* The environment of one per-date pipeline invocation *)

\* the response body of a successful download for date dt
Body(dt) == <<"TradDt", ",">> \o StrfYMD(dt)

\* everything answers as hoped
Nominal == [get |-> "ok", cwrite |-> "ok", resp |-> "ok", body |-> "good", io |-> "ok"]

\* one thing goes wrong
EnvFaults(ex) ==
    IF ex = "BSE"
    THEN {[Nominal EXCEPT !.resp = r] : r \in {"status", "neterr"}}
         \cup {[Nominal EXCEPT !.io = i] : i \in IoOutcomes \ {"ok"}}
    ELSE {[Nominal EXCEPT !.get = "neterr"], [Nominal EXCEPT !.cwrite = "nofile"],
          [Nominal EXCEPT !.cwrite = "short"], [Nominal EXCEPT !.body = "bad"]}
         \cup {[Nominal EXCEPT !.resp = r] : r \in {"html", "neterr", "partial"}}
         \cup {[Nominal EXCEPT !.io = i] : i \in IoOutcomes \ {"ok"}}

----------------------------------------------------------------------------
(* runner_bse.py *)

\* download_file(url, dest_path): the directory afterwards and the returned value
bse_download_file(f, dest_path, env, body) ==
    IF env.resp = "ok"
    THEN [fs |-> WriteFile(f, dest_path, body), ret |-> dest_path]
    ELSE \* HTTP status other than 200, or requests.get raised: except Exception
         [fs |-> f, ret |-> <<>>]

\* the name compress_file is given by download_bse_equity_bhavcopy
bse_final_path(date_obj) == Upper(StrfDBY(date_obj)) \o CsvSuffix

\* download_bse_equity_bhavcopy(date_str, output_dir)
download_bse_equity_bhavcopy(f, date_str, env) ==
    LET date_obj == Strptime(Upper(date_str))
    IN  IF date_obj = ValueError
        THEN [fs |-> f, raised |-> TRUE, ret |-> <<>>, dl |-> FALSE]
        ELSE LET file_path  == StrfDBY(date_obj) \o CsvSuffix
                 d          == bse_download_file(f, file_path, env, Body(date_obj))
                 final_path == bse_final_path(date_obj)
                 c          == compress_file(d.fs, [path |-> final_path, isPath |-> TRUE], env.io)
             IN  [fs |-> c.fs, raised |-> c.raised, ret |-> final_path, dl |-> d.ret # <<>>]

----------------------------------------------------------------------------
(* runner_nse.py *)

\* pickle.dumps / pickle.loads of a cookie jar (a sequence of cookie names)
Pickle(jar) == <<"PKL">> \o jar
CanUnpickle(b) == Len(b) >= 1 /\ b[1] = "PKL"
Unpickle(b) == Tail(b)

\* the cookies the homepage sets today, and a jar persisted by an earlier run
FreshJar == <<"nsit", "nseappid">>
OldJar == <<"nsit_old">>

NoCookieFile == [exists |-> FALSE, bytes |-> <<>>]
CookieFileOf(b) == [exists |-> TRUE, bytes |-> b]

Cookies(jar) == {jar[i] : i \in 1..Len(jar)}

\* a get_or_set_cookies that bootstraps on every call and never reads the file
get_or_set_cookies_Refresh(session, cf, env) ==
    IF env.get # "ok"
    THEN [session |-> session, cookieFile |-> cf,
          raised |-> TRUE, get |-> TRUE, got |-> FALSE]
    ELSE [session |-> session \cup Cookies(FreshJar),
          cookieFile |-> CookieFileOf(Pickle(FreshJar)),
          raised |-> FALSE, get |-> TRUE, got |-> TRUE]

\* get_or_set_cookies(session, cookie_path): session is the set of cookies the
\* session carries, cf the cookie file.  get: a bootstrap GET was sent;
\* got: it was answered.
get_or_set_cookies(session, cf, env) ==
    IF cf.exists
    THEN IF CanUnpickle(cf.bytes)
         THEN [session |-> session \cup Cookies(Unpickle(cf.bytes)), cookieFile |-> cf,
               raised |-> FALSE, get |-> FALSE, got |-> FALSE]
         ELSE \* pickle.loads raises
              [session |-> session, cookieFile |-> cf,
               raised |-> TRUE, get |-> FALSE, got |-> FALSE]
    ELSE IF env.get # "ok"
         THEN \* session.get raises
              [session |-> session, cookieFile |-> cf,
               raised |-> TRUE, get |-> TRUE, got |-> FALSE]
         ELSE LET cookies == FreshJar
                  s1      == session \cup Cookies(cookies)  \* the session keeps what a response sets
              IN  IF env.cwrite = "nofile"
                  THEN \* write_bytes raises before the file exists
                       [session |-> s1, cookieFile |-> cf,
                        raised |-> TRUE, get |-> TRUE, got |-> TRUE]
                  ELSE IF env.cwrite = "short"
                  THEN \* write_bytes raises after creating the file
                       [session |-> s1, cookieFile |-> CookieFileOf(<<>>),
                        raised |-> TRUE, get |-> TRUE, got |-> TRUE]
                  ELSE [session |-> s1 \cup Cookies(cookies),
                        cookieFile |-> CookieFileOf(Pickle(cookies)),
                        raised |-> FALSE, get |-> TRUE, got |-> TRUE]

\* a zip archive holding one entry, and what zipfile reads back from it
ZipOf(name, data) == <<"PK">> \o name \o <<"|">> \o data \o <<"EOCD">>
IsZip(z) == Len(z) >= 3 /\ z[1] = "PK" /\ z[Len(z)] = "EOCD" /\ \E i \in 2..Len(z) : z[i] = "|"
ZipBar(z) == CHOOSE i \in 2..Len(z) : z[i] = "|" /\ \A j \in 2..(i-1) : z[j] # "|"
ZipFirstName(z) == SubSeq(z, 2, ZipBar(z) - 1)
ZipFirstData(z) == SubSeq(z, ZipBar(z) + 1, Len(z) - 1)

\* a body that is no archive (an error document not served as text/html)
BadBody == <<"{", "}">>

\* a download_file without the Content-Type check
nse_download_file_NoHtmlCheck(f, dest_path, env, body) ==
    IF env.resp = "neterr"
    THEN [fs |-> f, raised |-> TRUE]
    ELSE IF env.resp = "partial"
    THEN [fs |-> WriteFile(f, dest_path, SubSeq(body, 1, Len(body) \div 2)), raised |-> TRUE]
    ELSE [fs |-> WriteFile(f, dest_path, body), raised |-> FALSE]

\* download_file(session, url, dest_path)
nse_download_file(f, dest_path, env, body) ==
    IF env.resp = "neterr"
    THEN [fs |-> f, raised |-> TRUE]                 \* session.get raises
    ELSE IF env.resp = "html"
    THEN [fs |-> f, raised |-> TRUE]                 \* RuntimeError
    ELSE IF env.resp = "partial"
    THEN \* iter_content raises after the first chunks were written
         [fs |-> WriteFile(f, dest_path, SubSeq(body, 1, Len(body) \div 2)), raised |-> TRUE]
    ELSE [fs |-> WriteFile(f, dest_path, body), raised |-> FALSE]

\* extract_file(file, extract_to)
extract_file(f, file) ==
    IF ~IsZip(f[Key(file)])
    THEN [fs |-> f, raised |-> TRUE, ret |-> <<>>]   \* ZipFile(file) raises BadZipFile
    ELSE LET first_file == ZipFirstName(f[Key(file)])
             g          == WriteFile(f, first_file, ZipFirstData(f[Key(file)]))
         IN  [fs |-> Unlink(g, file), raised |-> FALSE, ret |-> first_file]

NsePrefix == <<"B","h","a","v","C","o","p","y","_","N","S","E","_","C","M","_","0","_","0","_","0","_">>
NseZipTail == <<"_","F","_","0","0","0","0",".","c","s","v",".","z","i","p">>
NseCsvTail == <<"_","F","_","0","0","0","0",".","c","s","v">>

nse_zip_filename(date_obj) == NsePrefix \o StrfYMD(date_obj) \o NseZipTail
nse_final_path(date_obj) == StrfYMD(date_obj) \o CsvSuffix

\* what the exchange serves for date_obj
NseBody(date_obj, env) ==
    IF env.body = "good"
    THEN ZipOf(NsePrefix \o StrfYMD(date_obj) \o NseCsvTail, Body(date_obj))
    ELSE BadBody

\* download_nse_equity_bhavcopy raising with the directory as g, after the
\* cookie step ck
nse_raise(g, ck, downloaded) ==
    [fs |-> g, cookieFile |-> ck.cookieFile, raised |-> TRUE, ret |-> <<>>,
     get |-> ck.get, got |-> ck.got, session |-> ck.session,
     ckok |-> ~ck.raised, dl |-> downloaded, ext |-> FALSE]

\* download_nse_equity_bhavcopy returning: c is what compress_file gave
nse_return(c, ck, date_obj) ==
    [fs |-> c.fs, cookieFile |-> ck.cookieFile, raised |-> c.raised,
     ret |-> nse_final_path(date_obj),
     get |-> ck.get, got |-> ck.got, session |-> ck.session,
     ckok |-> TRUE, dl |-> TRUE, ext |-> TRUE]

\* download_nse_equity_bhavcopy from "Rename file" on: ex is what extract_file gave
nse_rename_compress(ex, ck, date_obj, env) ==
    IF ex.raised THEN nse_raise(ex.fs, ck, TRUE)
    ELSE nse_return(compress_file(Rename(ex.fs, ex.ret, nse_final_path(date_obj)),
                                  [path |-> nse_final_path(date_obj), isPath |-> TRUE], env.io),
                    ck, date_obj)

\* download_nse_equity_bhavcopy from "Extract zip file" on: dl is what download_file gave
nse_extract(dl, ck, date_obj, env) ==
    IF dl.raised THEN nse_raise(dl.fs, ck, FALSE)
    ELSE nse_rename_compress(extract_file(dl.fs, nse_zip_filename(date_obj)), ck, date_obj, env)

\* download_nse_equity_bhavcopy from "Download URL and destination" on: ck is
\* what get_or_set_cookies gave
nse_download(f, ck, date_obj, env) ==
    IF ck.raised THEN nse_raise(f, ck, FALSE)
    ELSE nse_extract(nse_download_file(f, nse_zip_filename(date_obj), env, NseBody(date_obj, env)),
                     ck, date_obj, env)

\* download_nse_equity_bhavcopy(date_str, output_dir)
download_nse_equity_bhavcopy(f, cf, date_str, env) ==
    IF Strptime(Upper(date_str)) = ValueError
    THEN [fs |-> f, cookieFile |-> cf, raised |-> TRUE, ret |-> <<>>,
          get |-> FALSE, got |-> FALSE, session |-> {}, ckok |-> FALSE, dl |-> FALSE,
          ext |-> FALSE]
    ELSE nse_download(f, get_or_set_cookies({}, cf, env), Strptime(Upper(date_str)), env)

----------------------------------------------------------------------------
(* download_bhavcopy_range, the same loop in both runners *)

\* the per-date pipeline of exchange ex
PerDate(ex, f, cf, date_str, env) ==
    IF ex = "BSE"
    THEN LET r == download_bse_equity_bhavcopy(f, date_str, env)
         IN  [fs |-> r.fs, cookieFile |-> cf, raised |-> r.raised, ret |-> r.ret,
              get |-> FALSE, got |-> FALSE, session |-> {}, ckok |-> FALSE, dl |-> r.dl,
              ext |-> r.dl]
    ELSE download_nse_equity_bhavcopy(f, cf, date_str, env)

\* a weekday test that lets Saturday through
IsWeekday_WithSaturday(dt) == Weekday(dt) < 6

\* current.weekday() < 5
IsWeekday(dt) == Weekday(dt) < 5

\* dt + timedelta(days=k), ValueError when that is past datetime.max
RECURSIVE AddDays(_, _)
AddDays(dt, k) ==
    IF k = 0 THEN dt
    ELSE IF AddDayOverflows(dt) THEN ValueError
    ELSE AddDays(PlusOneDay(dt), k - 1)

\* the days before the ranges of the model: Saturday 30 Dec 2023, two days before
\* the first date of the runners' entry points, and Saturday 25 Dec 9999, six
\* days before the last date a datetime holds
BaseDates == {[year |-> 2023, month |-> 12, day |-> 30],
              [year |-> MAXYEAR, month |-> 12, day |-> 25]}

NoStep == [kind |-> "init", date |-> ValueError, fsBefore |-> EmptyDir,
           cookieBefore |-> NoCookieFile, env |-> Nominal, raised |-> FALSE,
           ret |-> <<>>, get |-> FALSE, got |-> FALSE, session |-> {},
           ckok |-> FALSE, dl |-> FALSE, ext |-> FALSE]

Init ==
    /\ exchange \in {"BSE", "NSE"}
    /\ caseSensitive \in BOOLEAN
    /\ \E base \in BaseDates, i \in 0..StartSpread, j \in 0..MaxDays :
          LET s == AddDays(base, 1 + i)
              e == AddDays(base, i + j)
          IN  /\ s # ValueError /\ e # ValueError
              \* start = datetime.strptime(start_date.upper(), "%d%b%Y"), and end
              /\ start = Strptime(Upper(StrfDBY(s)))
              /\ end = Strptime(Upper(StrfDBY(e)))
    /\ current = start
    /\ downloaded_files = <<>>
    /\ fs = EmptyDir
    /\ cookieFile \in (IF exchange = "NSE"
                       THEN {NoCookieFile, CookieFileOf(Pickle(OldJar))}
                       ELSE {NoCookieFile})
    /\ pc = "loop"
    /\ calls = <<>>
    /\ last = NoStep
    /\ bootstraps = 0
    /\ faults = 0

\* current += timedelta(days=1), which ends the driver when it overflows
Advance ==
    IF AddDayOverflows(current)
    THEN pc' = "raised" /\ current' = current
    ELSE pc' = "loop" /\ current' = PlusOneDay(current)

\* one pass of the loop on a weekday, with the environment answering env
WeekdayPass(env) ==
    /\ pc = "loop"
    /\ DateLE(current, end)
    /\ IsWeekday(current)
    /\ \E r \in {PerDate(exchange, fs, cookieFile, Upper(StrfDBY(current)), env)} :
           /\ fs' = r.fs
           /\ cookieFile' = r.cookieFile
           /\ downloaded_files' = IF r.raised THEN downloaded_files
                                  ELSE Append(downloaded_files, r.ret)
           /\ calls' = Append(calls, [date |-> current, dl |-> r.dl, ext |-> r.ext,
                                      returned |-> ~r.raised])
           /\ bootstraps' = bootstraps + (IF r.get /\ r.ckok THEN 1 ELSE 0)
           /\ last' = [kind |-> "call", date |-> current, fsBefore |-> fs,
                       cookieBefore |-> cookieFile, env |-> env, raised |-> r.raised,
                       ret |-> r.ret, get |-> r.get, got |-> r.got, session |-> r.session,
                       ckok |-> r.ckok, dl |-> r.dl, ext |-> r.ext]
    /\ Advance
    /\ UNCHANGED << exchange, caseSensitive, start, end >>

WeekdayOk ==
    /\ WeekdayPass(Nominal)
    /\ faults' = faults

WeekdayFault ==
    /\ faults < MaxFaults
    /\ \E env \in EnvFaults(exchange) : WeekdayPass(env)
    /\ faults' = faults + 1

\* one pass of the loop on a Saturday or Sunday
WeekendSkip ==
    /\ pc = "loop"
    /\ DateLE(current, end)
    /\ ~IsWeekday(current)
    /\ last' = [NoStep EXCEPT !.kind = "weekend", !.date = current, !.fsBefore = fs,
                              !.cookieBefore = cookieFile]
    /\ Advance
    /\ UNCHANGED << exchange, caseSensitive, start, end, downloaded_files, fs,
                    cookieFile, calls, bootstraps, faults >>

\* the loop condition fails: return downloaded_files
Return ==
    /\ pc = "loop"
    /\ ~DateLE(current, end)
    /\ pc' = "returned"
    /\ UNCHANGED << exchange, caseSensitive, start, end, current, downloaded_files, fs,
                    cookieFile, calls, last, bootstraps, faults >>

Next == WeekdayOk \/ WeekdayFault \/ WeekendSkip \/ Return

Spec == Init /\ [][Next]_vars

----------------------------------------------------------------------------
(* compress_file called on its own: a directory of a few files, a few calls *)

NameA == <<"a", ".", "c", "s", "v">>
NameAUpper == <<"A", ".", "C", "S", "V">>
NameAGz == <<"a", ".", "c", "s", "v", ".", "g", "z">>
NameB == <<"b", ".", "c", "s", "v">>
NameBare == <<"b">>

\* the files a directory of this specification starts with
SeedNames == <<NameA, NameAGz, NameB>>
\* the paths compress_file is called with
ArgPaths == {NameA, NameAUpper, NameB, NameBare}
\* file contents
Contents == {<<"x", "y">>, <<"z">>}

\* the directory holding the seed names of the indices in S, contents by c
RECURSIVE SeedDir(_, _)
SeedDir(S, c) ==
    IF S = {} THEN EmptyDir
    ELSE LET i == CHOOSE k \in S : TRUE
         IN  WriteFile(SeedDir(S \ {i}, c), SeedNames[i], c[i])

InitCompress ==
    /\ caseSensitive \in BOOLEAN
    /\ \E S \in SUBSET (1..3), c \in [1..3 -> Contents] : fs = SeedDir(S, c)
    /\ pc = "calls"
    /\ calls = <<>>
    /\ last = [kind |-> "init", arg |-> [path |-> <<>>, isPath |-> TRUE], io |-> "ok",
               fsBefore |-> EmptyDir, ret |-> "None", raised |-> FALSE]
    /\ exchange = "BSE"
    /\ start = ValueError /\ end = ValueError /\ current = ValueError
    /\ downloaded_files = <<>>
    /\ cookieFile = NoCookieFile
    /\ bootstraps = 0
    /\ faults = 0

\* one call compress_file(arg) with the file system answering io
CompressCall ==
    /\ pc = "calls"
    /\ Len(calls) < MaxCalls
    /\ \E p \in ArgPaths, isP \in BOOLEAN, io \in IoOutcomes :
         \E r \in {compress_file(fs, [path |-> p, isPath |-> isP], io)} :
            /\ fs' = r.fs
            /\ calls' = Append(calls, p)
            /\ last' = [kind |-> "compress", arg |-> [path |-> p, isPath |-> isP], io |-> io,
                        fsBefore |-> fs, ret |-> r.ret, raised |-> r.raised]
    /\ UNCHANGED << exchange, caseSensitive, start, end, current, downloaded_files,
                    cookieFile, pc, bootstraps, faults >>

NextCompress == CompressCall

SpecCompress == InitCompress /\ [][NextCompress]_vars

----------------------------------------------------------------------------
(* What the properties speak of *)

Range(seq) == {seq[i] : i \in 1..Len(seq)}

\* every date a range of the model can hold
AllDates == {AddDays(b, k) : b \in BaseDates, k \in 0..(StartSpread + MaxDays + 1)} \ {ValueError}

\* the day count of each of them (day 1, 0001-01-01, is a Monday)
DayCount == [d \in AllDates |-> ToOrdinal(d)]

\* Saturday or Sunday, by the day count
IsSatOrSun(dt) == DayCount[dt] % 7 \in {6, 0}

SatSuns == {d \in AllDates : IsSatOrSun(d)}

InRange(dt) == DayCount[start] <= DayCount[dt] /\ DayCount[dt] <= DayCount[end]
WeekdaysInRange == {d \in AllDates \ SatSuns : InRange(d)}
WeekendsInRange == {d \in SatSuns : InRange(d)}

\* the exchanges' naming conventions: DDMMMYYYY for exchange A, YYYYMMDD for B
ConventionStem(ex, dt) == IF ex = "BSE" THEN Upper(StrfDBY(dt)) ELSE StrfYMD(dt)
FinalGz(ex, dt) == ConventionStem(ex, dt) \o CsvGzSuffix
FinalCsv(ex, dt) == ConventionStem(ex, dt) \o CsvSuffix

\* every name a pipeline can give a file of date dt
NamesOfDate(dt) ==
    {StrfDBY(dt) \o CsvSuffix, Upper(StrfDBY(dt)) \o CsvSuffix, Upper(StrfDBY(dt)) \o CsvGzSuffix,
     StrfYMD(dt) \o CsvSuffix, StrfYMD(dt) \o CsvGzSuffix,
     nse_zip_filename(dt), NsePrefix \o StrfYMD(dt) \o NseCsvTail}

NamesOf == [d \in AllDates |-> NamesOfDate(d)]

\* the pipeline was invoked exactly once for every weekday of the range, in
\* ascending date order
CallsAreTheWeekdays ==
    /\ Len(calls) = Cardinality(WeekdaysInRange)
    /\ \A i \in 1..Len(calls) : calls[i].date \in WeekdaysInRange
    /\ \A i, j \in 1..Len(calls) : i < j => DayCount[calls[i].date] < DayCount[calls[j].date]

Jan1_2024 == [year |-> 2024, month |-> 1, day |-> 1]
Jan7_2024 == [year |-> 2024, month |-> 1, day |-> 7]

----------------------------------------------------------------------------
(* The properties *)

\* C1: when a per-date pipeline whose download (and extraction) succeeded
\* returns, on a case-sensitive file system and from an empty directory, the
\* directory holds exactly the compressed file named by the exchange's
\* convention, and that file decompresses to the downloaded data.
C1_ExactlyTheCompressedFile ==
    ( /\ last.kind = "call" /\ caseSensitive /\ last.fsBefore = EmptyDir
      /\ last.dl /\ last.ext /\ ~last.raised /\ last.env.io = "ok" )
    => /\ DOMAIN fs = {Key(FinalGz(exchange, last.date))}
       /\ Gunzip(fs[Key(FinalGz(exchange, last.date))]) = Body(last.date)

\* C2: the returned list has an entry for a date only if that date's final
\* compressed file was produced.
C2_EntryOnlyIfProduced ==
    pc = "returned" =>
        \A i \in 1..Len(calls) :
            FinalCsv(exchange, calls[i].date) \in Range(downloaded_files)
            => /\ Exists(fs, FinalGz(exchange, calls[i].date))
               /\ IsGzip(fs[Key(FinalGz(exchange, calls[i].date))])

\* C3: the driver never ends otherwise than by returning, and when it has
\* ended the pipeline was invoked exactly once per weekday of the range, in
\* ascending order (for no weekday at all when start is later than end).
C3_EveryWeekdayThenReturns ==
    pc # "loop" => pc = "returned" /\ CallsAreTheWeekdays

\* C4: when exchange B's downloader gets a text/html response the pipeline
\* raises, the directory is as it was before the invocation (no archive, no
\* CSV, no compressed file appears), and a date whose pipeline raised has no
\* entry in the result.
C4_HtmlWritesNothing ==
    /\ ( last.kind = "call" /\ exchange = "NSE" /\ last.ckok /\ last.env.resp = "html" )
       => /\ last.raised
          /\ fs = last.fsBefore
          /\ ~last.dl
    /\ \A i \in 1..Len(calls) :
          ~calls[i].returned => FinalCsv(exchange, calls[i].date) \notin Range(downloaded_files)

C4_Witness ==
    /\ last.kind = "call" /\ exchange = "NSE" /\ last.ckok /\ last.env.resp = "html"
    /\ pc = "returned"

\* C5: between invocations the directory holds nothing but final compressed
\* files of the dates the pipeline was invoked with.
C5_OnlyFinalFiles ==
    \A k \in DOMAIN fs : \E i \in 1..Len(calls) : k = Key(FinalGz(exchange, calls[i].date))

\* C6: a get_or_set_cookies call made without a cookie file sends the
\* bootstrap GET and, when the call returns, has created the file with the
\* cookies received; a call made with a cookie file sends no GET and leaves
\* the file as it is; at most one call bootstraps and returns; after a call
\* that returns the session carries the persisted cookies.
C6_CookieLifecycle ==
    /\ bootstraps <= 1
    /\ ( last.kind = "call" /\ exchange = "NSE" )
       => /\ ~last.cookieBefore.exists => last.get
          /\ ( ~last.cookieBefore.exists /\ last.ckok )
             => cookieFile = CookieFileOf(Pickle(FreshJar))
          /\ last.cookieBefore.exists => ( ~last.get /\ cookieFile = last.cookieBefore )
          /\ last.ckok => /\ cookieFile.exists
                          /\ CanUnpickle(cookieFile.bytes)
                          /\ Cookies(Unpickle(cookieFile.bytes)) \subseteq last.session

C6_Witness ==
    /\ last.kind = "call" /\ exchange = "NSE"
    /\ bootstraps = 1 /\ last.cookieBefore.exists /\ last.ckok /\ ~last.get

\* C7: for a Saturday or Sunday of the range the pipeline is not invoked, no
\* file of that date exists, the result has no entry for it, and the pass
\* that skips it changes neither the directory nor the cookie file.
C7_WeekendSkipped ==
    /\ \A i \in 1..Len(calls) : ~IsSatOrSun(calls[i].date)
    /\ \A d \in WeekendsInRange :
          /\ \A n \in NamesOf[d] : ~Exists(fs, n) /\ n \notin Range(downloaded_files)
    /\ last.kind = "weekend"
       => /\ IsSatOrSun(last.date)
          /\ fs = last.fsBefore /\ cookieFile = last.cookieBefore /\ ~last.get

C7_Witness ==
    /\ last.kind = "weekend" /\ Len(calls) >= 1 /\ Len(downloaded_files) >= 1
    /\ pc = "returned"

\* C8: when every download (and extraction) of the range succeeded, the
\* returned list has exactly one entry per weekday of the range, in ascending
\* date order; 01JAN2024 to 07JAN2024 yields 5 entries.
C8_OneEntryPerWeekday ==
    ( pc = "returned" /\ \A i \in 1..Len(calls) : calls[i].dl /\ calls[i].ext )
    => /\ CallsAreTheWeekdays
       /\ Len(downloaded_files) = Cardinality(WeekdaysInRange)
       /\ \A i \in 1..Len(downloaded_files) :
             downloaded_files[i] = FinalCsv(exchange, calls[i].date)
       /\ ( start = Jan1_2024 /\ end = Jan7_2024 ) => Len(downloaded_files) = 5

C8_Witness ==
    /\ pc = "returned" /\ start = Jan1_2024 /\ end = Jan7_2024
    /\ \A i \in 1..Len(calls) : calls[i].dl /\ calls[i].ext
    /\ Len(downloaded_files) = 5

\* the sibling of file name n with the compressed suffix
GzSibling(n) == n \o <<".", "g", "z">>

\* C9: compress_file on an existing .csv file given as a Path, with no I/O
\* error: returns True, the file is gone, the .csv.gz sibling exists and
\* decompresses to the file's bytes, and every other file is as before.
C9_CompressRoundTrip ==
    ( /\ last.kind = "compress" /\ last.arg.isPath /\ last.io = "ok"
      /\ Suffix(last.arg.path) = CsvSuffix
      /\ Exists(last.fsBefore, last.arg.path) )
    => /\ last.ret = "True" /\ ~last.raised
       /\ ~Exists(fs, last.arg.path)
       /\ Exists(fs, GzSibling(last.arg.path))
       /\ Gunzip(fs[Key(GzSibling(last.arg.path))]) = last.fsBefore[Key(last.arg.path)]
       /\ \A k \in (DOMAIN fs \cup DOMAIN last.fsBefore)
                   \ {Key(last.arg.path), Key(GzSibling(last.arg.path))} :
             k \in DOMAIN fs /\ k \in DOMAIN last.fsBefore /\ fs[k] = last.fsBefore[k]

C9_Witness ==
    /\ last.kind = "compress" /\ last.arg.isPath /\ last.io = "ok"
    /\ Suffix(last.arg.path) = CsvSuffix
    /\ Exists(last.fsBefore, last.arg.path)
    /\ Cardinality(DOMAIN fs) >= 2

\* C10: compress_file never raises; when it fails (does not return True) it
\* has not produced the .csv.gz file, and when the input file is missing the
\* directory is unchanged.
C10_FailureLeavesNoOutput ==
    ( last.kind = "compress" /\ last.arg.isPath )
    => /\ ~last.raised
       /\ last.ret # "True"
          => ( ~Exists(last.fsBefore, WithSuffix(last.arg.path, CsvGzSuffix))
               => ~Exists(fs, WithSuffix(last.arg.path, CsvGzSuffix)) )
       /\ ~Exists(last.fsBefore, last.arg.path) => fs = last.fsBefore

----------------------------------------------------------------------------
(* What holds where C1, C3, C5 and C10 fail *)

\* exchange B's pipeline leaves exactly the compressed file
NseLeavesExactlyTheCompressedFile == exchange = "NSE" => C1_ExactlyTheCompressedFile

\* so does exchange A's on a file system that ignores letter case
BseCaseInsensitiveLeavesTheCompressedFile ==
    ( /\ exchange = "BSE" /\ ~caseSensitive /\ last.kind = "call"
      /\ last.fsBefore = EmptyDir /\ last.dl /\ ~last.raised /\ last.env.io = "ok" )
    => DOMAIN fs = {Key(FinalGz(exchange, last.date))}

\* whatever fails inside the pipelines, the driver invokes the pipeline once
\* per weekday in ascending order, and returns unless end is the last date
DriverRunsEveryWeekday ==
    pc # "loop" => /\ CallsAreTheWeekdays
                   /\ end # DateMax => pc = "returned"
                   /\ ( pc = "returned" /\ DayCount[start] > DayCount[end] )
                      => ( calls = <<>> /\ downloaded_files = <<>> )

\* with nothing failing exchange B leaves only final compressed files
NseCleanWhenNothingFails == ( exchange = "NSE" /\ faults = 0 ) => C5_OnlyFinalFiles

\* compress_file never raises, and a missing input changes nothing
CompressSwallowsFailure ==
    last.kind = "compress"
    => /\ ~last.raised
       /\ ~Exists(last.fsBefore, last.arg.path) => ( fs = last.fsBefore /\ last.ret # "True" )

====
